---- MODULE Spec2Model ----
(***************************************************************************)
(* SafeScan monitoring service (src/app.py): six GET handlers over the     *)
(* host's CPU/memory/disk counters, three dependency URLs and the rotating *)
(* log file logs/monitoring.log.  Two threads serve requests; the          *)
(* log file, its backups and the logging handler's lock are shared.        *)
(***************************************************************************)
EXTENDS Integers, Sequences, FiniteSets, TLC

(***************************************************************************)
(* Bounds of the model.                                                    *)
(***************************************************************************)
\* requests served in one behaviour
MaxRequests == 2
\* tenths in a percent: psutil reports percentages to one decimal, held here as
\* integers
Scale == 10
\* length of record.pathname in a formatted record (depends on the deployment)
PathLen == 11
\* bytes by which the largest pre-existing log file falls short of maxBytes
BulkSlack == 175

Threads == {1, 2}

(***************************************************************************)
(* Text.  A text is a sequence of segments; a segment is a run of          *)
(* characters that is either all whitespace (ws) or starts and ends with a *)
(* character that is not whitespace, n being its length in bytes.  LF is   *)
(* the one-character segment "\n".                                         *)
(***************************************************************************)
Seg(txt, n, ws) == [txt |-> txt, n |-> n, ws |-> ws]
LF == Seg("\n", 1, TRUE)

RECURSIVE Bytes(_)
Bytes(text) == IF text = <<>> THEN 0 ELSE Head(text).n + Bytes(Tail(text))

\* str.lstrip(): drop the leading whitespace
RECURSIVE lstrip(_)
lstrip(text) ==
    IF text = <<>> THEN <<>>
    ELSE IF Head(text).ws THEN lstrip(Tail(text)) ELSE text

\* str.rstrip(): drop the trailing whitespace
RECURSIVE rstrip(_)
rstrip(text) ==
    IF text = <<>> THEN <<>>
    ELSE IF text[Len(text)].ws THEN rstrip(SubSeq(text, 1, Len(text) - 1))
    ELSE text

\* str.strip()
strip(text) == rstrip(lstrip(text))

\* f.readlines(): the content cut after every "\n"; each line keeps its "\n",
\* a last line without one is a line too
RECURSIVE readlinesFrom(_, _, _)
readlinesFrom(content, cur, acc) ==
    IF content = <<>>
    THEN IF cur = <<>> THEN acc ELSE Append(acc, cur)
    ELSE IF Head(content) = LF
         THEN readlinesFrom(Tail(content), <<>>, Append(acc, Append(cur, LF)))
         ELSE readlinesFrom(Tail(content), Append(cur, Head(content)), acc)

readlines(content) == readlinesFrom(content, <<>>, <<>>)

(***************************************************************************)
(* Python sequence slicing and the lines query parameter.                  *)
(***************************************************************************)
\* seq[start:] of Python: a negative start counts from the end and is clamped
\* at the beginning; -0 is 0
SliceFrom(seq, start) ==
    LET len == Len(seq)
        s0  == IF start < 0 THEN start + len ELSE start
        s   == IF s0 < 0 THEN 0 ELSE IF s0 > len THEN len ELSE s0
    IN  SubSeq(seq, s + 1, len)

\* recent_logs = logs[-lines:] if len(logs) > lines else logs
recent(logs, lines) ==
    IF Len(logs) > lines THEN SliceFrom(logs, -lines) ELSE logs

DefaultLines == 100

\* request.args.get('lines', default=100, type=int): a missing parameter and one
\* that int() rejects give the default
Absent == [kind |-> "absent"]
Garbage == [kind |-> "text"]
IntArg(v) == [kind |-> "int", v |-> v]
ParseLines(raw) == IF raw.kind = "int" THEN raw.v ELSE DefaultLines

(***************************************************************************)
(* Logging: RotatingFileHandler('logs/monitoring.log', maxBytes=10240000,  *)
(* backupCount=10) with the formatter of line 18.                          *)
(***************************************************************************)
\* a mutant of the size limit: ten times 1024 * 1024
maxBytesMiB == 10 * 1024 * 1024
maxBytes == 10240000

backupCount == 10

AsctimeLen == 23

\* '%(asctime)s %(levelname)s: %(message)s [in %(pathname)s:%(lineno)d]': the
\* text names the time and the path, n counts the bytes they take
Format(time, level, msg, lineno) ==
    Seg("asctime" \o ToString(time) \o " " \o level \o ": " \o msg
            \o " [in pathname:" \o ToString(lineno) \o "]",
        AsctimeLen + 1 + Len(level) + 2 + Len(msg) + 5 + PathLen + 1
            + Len(ToString(lineno)) + 1,
        FALSE)

\* what StreamHandler.emit writes: the formatted record and the terminator
Written(rec) == <<Format(rec.time, rec.level, rec.msg, rec.lineno), LF>>

\* RotatingFileHandler.shouldRollover: the stream is at the end of the file
shouldRollover(content, rec) ==
    maxBytes > 0 /\ Bytes(content) + Bytes(Written(rec)) >= maxBytes

\* doRollover, the backups: .i becomes .i+1 for i = backupCount-1 .. 1 (a .i+1
\* in the way is removed first; nothing moves .backupCount), then the active
\* file becomes .1
RotateBackups(bk) ==
    IF backupCount > 0
    THEN {1} \cup {i + 1 : i \in {j \in bk : j <= backupCount - 1}}
            \cup {j \in bk : j >= backupCount}
    ELSE bk

(***************************************************************************)
(* State.                                                                  *)
(***************************************************************************)
VARIABLES
    pc,         \* pc[t]: where thread t stands in its handler
    frame,      \* frame[t]: the handler's request and local variables
    sent,       \* the response sent last, with its request and with what the
                \* handler read of the host, the network or the disk (input)
    clock,      \* datetime.utcnow(), one tick per request
    logFile,    \* logs/monitoring.log: [exists, content]
    backups,    \* the i for which logs/monitoring.log.i exists
    lock,       \* the thread holding file_handler's lock, 0 when free
    hits,       \* hits[name]: requests the dependency has received
    svcDone,    \* /services calls answered
    osQueries   \* psutil queries made

vars == <<pc, frame, sent, clock, logFile, backups, lock, hits, svcDone,
          osQueries>>

NoFrame == [request |-> [route |-> "none"]]
Nothing == [request |-> [route |-> "none"], input |-> <<>>, status |-> 0]
Response(status, body) == [status |-> status, body |-> body]

\* a mutant of the except branches: the 500 is left out
ErrorResponseOk(e) == Response(200, [error |-> e])

\* return jsonify({'error': str(e)}), 500
ErrorResponse(e) == Response(500, [error |-> e])

Record(time, level, msg, lineno) ==
    [time |-> time, level |-> level, msg |-> msg, lineno |-> lineno]

\* app.logger.info('SafeScan Monitoring startup'), line 24
StartupRecord == Record(0, "INFO", "SafeScan Monitoring startup", 24)

\* Handler.handle for a record no other thread interleaves with: roll over when
\* the record asks for it, then write
EmitWhole(disk, rec) ==
    IF shouldRollover(disk.content, rec)
    THEN [content |-> Written(rec), backups |-> RotateBackups(disk.backups)]
    ELSE [content |-> disk.content \o Written(rec), backups |-> disk.backups]

\* Lines a log file may hold before the process starts
PaddedLine == <<Seg("  ", 2, TRUE), Seg("b c", 3, FALSE), Seg(" \t", 2, TRUE), LF>>
BlankLine == <<LF>>
OpenLine == <<Seg("z", 1, FALSE)>>
BulkLine == <<Seg("x", maxBytes - BulkSlack, FALSE), LF>>

\* The disk before the process starts: the log file's content and its backups
PreDisks ==
    { [content |-> PaddedLine \o BlankLine \o OpenLine, backups |-> {}],
      [content |-> BulkLine, backups |-> 1..(backupCount - 1)] }

Init ==
    /\ pc = [t \in Threads |-> "idle"]
    /\ frame = [t \in Threads |-> NoFrame]
    /\ sent = Nothing
    /\ clock = 0
    /\ \E pre \in PreDisks :
          LET disk == EmitWhole(pre, StartupRecord)
          IN  /\ logFile = [exists |-> TRUE, content |-> disk.content]
              /\ backups = disk.backups
    /\ lock = 0
    /\ hits = [n \in {"api", "database", "redis"} |-> 0]
    /\ svcDone = 0
    /\ osQueries = 0

\* a request is handed to the first thread that is free
Idle(t) ==
    /\ clock < MaxRequests
    /\ pc[t] = "idle"
    /\ \A u \in Threads : u < t => pc[u] # "idle"

\* a request reaches thread t
Begin(t) ==
    /\ Idle(t)
    /\ clock' = clock + 1

\* the handler returns: its locals go, the response is sent
Answer(t, request, input, r) ==
    /\ pc' = [pc EXCEPT ![t] = "idle"]
    /\ frame' = [frame EXCEPT ![t] = NoFrame]
    /\ sent' = [request |-> request, input |-> input, status |-> r.status,
                body |-> r.body]

(***************************************************************************)
(* /health and /ping                                                       *)
(***************************************************************************)
\* a mutant of the liveness payload: the service reports itself degraded
HealthBodyDegraded(now) ==
    [status |-> "degraded", timestamp |-> now, service |-> "monitoring"]

HealthBody(now) ==
    [status |-> "healthy", timestamp |-> now, service |-> "monitoring"]

PingBody == [message |-> "pong"]

health(t) ==
    /\ Begin(t)
    /\ Answer(t, [route |-> "/health"], <<>>, Response(200, HealthBody(clock')))
    /\ UNCHANGED <<logFile, backups, lock, hits, svcDone, osQueries>>

ping(t) ==
    /\ Begin(t)
    /\ Answer(t, [route |-> "/ping"], <<>>, Response(200, PingBody))
    /\ UNCHANGED <<logFile, backups, lock, hits, svcDone, osQueries>>

(***************************************************************************)
(* app.logger.error(...): the record goes to file_handler under its lock.  *)
(* frame[t] holds the record and the response the handler returns after.   *)
(***************************************************************************)
Logging(request, input, rec, after) ==
    [request |-> request, input |-> input, rec |-> rec, after |-> after]

\* Handler.handle: take the lock; shouldRollover; without a rollover write the
\* record and release, with one close the stream, shift the backups and rename
\* the active file to .1
emit(t) ==
    /\ pc[t] = "emit"
    /\ lock = 0
    /\ IF shouldRollover(logFile.content, frame[t].rec)
       THEN /\ backups' = RotateBackups(backups)
            /\ logFile' = [exists |-> FALSE, content |-> <<>>]
            /\ lock' = t
            /\ pc' = [pc EXCEPT ![t] = "reopen"]
            /\ UNCHANGED <<frame, sent>>
       ELSE /\ logFile' = [logFile EXCEPT
                              !.content = @ \o Written(frame[t].rec)]
            /\ Answer(t, frame[t].request, frame[t].input, frame[t].after)
            /\ UNCHANGED <<backups, lock>>
    /\ UNCHANGED <<clock, hits, svcDone, osQueries>>

\* doRollover, last line: self.stream = self._open() creates the active file
reopen(t) ==
    /\ pc[t] = "reopen"
    /\ lock = t
    /\ logFile' = [exists |-> TRUE, content |-> <<>>]
    /\ pc' = [pc EXCEPT ![t] = "write"]
    /\ UNCHANGED <<frame, sent, clock, backups, lock, hits, svcDone, osQueries>>

\* FileHandler.emit after the rollover, then the lock is released and the
\* handler returns
write(t) ==
    /\ pc[t] = "write"
    /\ lock = t
    /\ logFile' = [logFile EXCEPT !.content = @ \o Written(frame[t].rec)]
    /\ lock' = 0
    /\ Answer(t, frame[t].request, frame[t].input, frame[t].after)
    /\ UNCHANGED <<clock, backups, hits, svcDone, osQueries>>

(***************************************************************************)
(* The host's counters.  A psutil query returns a sample or raises.        *)
(***************************************************************************)
Ok(v) == [ok |-> TRUE, v |-> v]
Raises(e) == [ok |-> FALSE, e |-> e]

\* samples at each threshold and just above it, in 1/Scale percent
MemorySample(p) ==
    [total |-> 100 * Scale, available |-> 100 * Scale - p, percent |-> p,
     used |-> p]
DiskSample(p) ==
    [total |-> 100 * Scale, used |-> p, free |-> 100 * Scale - p, percent |-> p]

CpuOutcomes ==
    {Ok(80 * Scale), Ok(80 * Scale + 1), Raises("cpu_percent failed")}
MemoryOutcomes ==
    {Ok(MemorySample(85 * Scale)), Ok(MemorySample(85 * Scale + 1)),
     Raises("virtual_memory failed")}
DiskOutcomes ==
    {Ok(DiskSample(90 * Scale)), Ok(DiskSample(90 * Scale + 1)),
     Raises("disk_usage failed")}
CpuCount == 4

\* the queries of one handler run in order and stop at the first that raises:
\* how many ran and what they gave, and the exception if any
Ran(outs) ==
    LET bad == {i \in 1..Len(outs) : ~outs[i].ok}
        first == CHOOSE i \in bad : \A j \in bad : i <= j
    IN  IF bad = {} THEN [n |-> Len(outs), outs |-> outs, raised |-> FALSE]
        ELSE [n |-> first, outs |-> SubSeq(outs, 1, first), raised |-> TRUE,
              e |-> outs[first].e]

(***************************************************************************)
(* /metrics                                                                *)
(***************************************************************************)
MetricsBody(cpu, memory, disk, now) ==
    [cpu |-> [percent |-> cpu, count |-> CpuCount],
     memory |-> memory, disk |-> disk, timestamp |-> now]

system_metrics(t) ==
    /\ Begin(t)
    /\ \E cpu \in CpuOutcomes, memory \in MemoryOutcomes, disk \in DiskOutcomes :
          LET ran == Ran(<<cpu, memory, disk>>)
          IN  IF ran.raised
              THEN /\ osQueries' = osQueries + ran.n
                   /\ frame' = [frame EXCEPT ![t] =
                         Logging([route |-> "/metrics"], ran.outs,
                                 Record(clock', "ERROR",
                                    "Error getting system metrics: " \o ran.e, 70),
                                 ErrorResponse(ran.e))]
                   /\ pc' = [pc EXCEPT ![t] = "emit"]
                   /\ UNCHANGED sent
              ELSE \* the fourth query is psutil.cpu_count()
                   /\ osQueries' = osQueries + ran.n + 1
                   /\ Answer(t, [route |-> "/metrics"], ran.outs,
                          Response(200,
                              MetricsBody(cpu.v, memory.v, disk.v, clock')))
    /\ UNCHANGED <<logFile, backups, lock, hits, svcDone>>

(***************************************************************************)
(* /alerts                                                                 *)
(***************************************************************************)
CpuThreshold == 80
MemoryThreshold == 85
DiskThreshold == 90

Alert(level, type, msg, now) ==
    [level |-> level, type |-> type, message |-> msg, timestamp |-> now]

\* f'{percent}': the value with its one decimal
Shown(p) == ToString(p \div Scale) \o "." \o ToString(p % Scale)

\* a mutant of the CPU test: the threshold itself alerts
CpuAlertsAtThreshold(cpu_percent, now) ==
    IF cpu_percent >= CpuThreshold * Scale
    THEN <<Alert("warning", "cpu",
                 "High CPU usage: " \o Shown(cpu_percent) \o "%", now)>>
    ELSE <<>>

CpuAlerts(cpu_percent, now) ==
    IF cpu_percent > CpuThreshold * Scale
    THEN <<Alert("warning", "cpu",
                 "High CPU usage: " \o Shown(cpu_percent) \o "%", now)>>
    ELSE <<>>

MemoryAlerts(memory, now) ==
    IF memory.percent > MemoryThreshold * Scale
    THEN <<Alert("warning", "memory",
                 "High memory usage: " \o Shown(memory.percent) \o "%", now)>>
    ELSE <<>>

DiskAlerts(disk, now) ==
    IF disk.percent > DiskThreshold * Scale
    THEN <<Alert("critical", "disk",
                 "Low disk space: " \o Shown(disk.percent) \o "% used", now)>>
    ELSE <<>>

get_alerts(t) ==
    /\ Begin(t)
    /\ \E cpu \in CpuOutcomes, memory \in MemoryOutcomes, disk \in DiskOutcomes :
          LET ran == Ran(<<cpu, memory, disk>>)
          IN  /\ osQueries' = osQueries + ran.n
              /\ IF ran.raised
                 THEN /\ frame' = [frame EXCEPT ![t] =
                            Logging([route |-> "/alerts"], ran.outs,
                                    Record(clock', "ERROR",
                                        "Error getting alerts: " \o ran.e, 166),
                                    ErrorResponse(ran.e))]
                      /\ pc' = [pc EXCEPT ![t] = "emit"]
                      /\ UNCHANGED sent
                 ELSE LET alerts == CpuAlerts(cpu.v, clock')
                                        \o MemoryAlerts(memory.v, clock')
                                        \o DiskAlerts(disk.v, clock')
                      IN  Answer(t, [route |-> "/alerts"], ran.outs,
                              Response(200,
                                  [alerts |-> alerts, count |-> Len(alerts),
                                   timestamp |-> clock']))
    /\ UNCHANGED <<logFile, backups, lock, hits, svcDone>>

(***************************************************************************)
(* /services                                                               *)
(***************************************************************************)
\* SERVICES.items(): the dict keeps the order its keys were written in
ServiceNames == <<"api", "database", "redis">>

\* Optional values of a JSON payload: null, or the value
None == <<>>
Some(v) == <<v>>

\* requests.get(service_url, timeout=5): a response, or a RequestException
Got(code, elapsed) == [raised |-> FALSE, status_code |-> code, elapsed |-> elapsed]
Failed(e) == [raised |-> TRUE, e |-> e]
GetOutcomes ==
    { Got(200, 1), Got(503, 4),
      Failed("ConnectionError: connection refused") }

\* a mutant of the classification: any response counts as healthy
CheckAnyResponse(out) ==
    IF out.raised
    THEN [status |-> "unhealthy", error |-> out.e, response_time |-> None]
    ELSE [status |-> "healthy", status_code |-> out.status_code,
          response_time |-> Some(out.elapsed)]

\* a mutant of the except branch: the exception text is dropped
CheckNoErrorText(out) ==
    IF out.raised
    THEN [status |-> "unhealthy", error |-> "", response_time |-> None]
    ELSE [status |-> IF out.status_code = 200 THEN "healthy" ELSE "unhealthy",
          status_code |-> out.status_code,
          response_time |-> Some(out.elapsed)]

\* the body of the loop: the entry written to results[service_name]
Check(out) ==
    IF out.raised
    THEN [status |-> "unhealthy", error |-> out.e, response_time |-> None]
    ELSE [status |-> IF out.status_code = 200 THEN "healthy" ELSE "unhealthy",
          status_code |-> out.status_code,
          response_time |-> Some(out.elapsed)]

\* results[name] = entry on a dict held as its items in order
DictSet(items, name, entry) ==
    IF \E i \in 1..Len(items) : items[i].name = name
    THEN [i \in 1..Len(items) |->
             IF items[i].name = name THEN [name |-> name, entry |-> entry]
             ELSE items[i]]
    ELSE Append(items, [name |-> name, entry |-> entry])

\* a mutant of the loop: the last endpoint is left out
NextServiceSkipLast(results) ==
    IF Len(results) < Len(ServiceNames) - 1 THEN Len(results) + 1 ELSE 0

\* the loop's position: the endpoint to request next, 0 after the last
NextService(results) ==
    IF Len(results) < Len(ServiceNames) THEN Len(results) + 1 ELSE 0

all_healthy(results) ==
    \A i \in 1..Len(results) : results[i].entry.status = "healthy"

\* one turn of the loop at results: the request to the next endpoint and its
\* entry; after the last turn, all_healthy and the response
Turn(t, request, results, got, now) ==
    LET name == ServiceNames[NextService(results)]
    IN  /\ hits' = [hits EXCEPT ![name] = @ + 1]
        /\ \E out \in GetOutcomes :
              LET after == DictSet(results, name, Check(out))
                  healthy == all_healthy(after)
              IN  IF NextService(after) # 0
                  THEN /\ frame' = [frame EXCEPT ![t] =
                              [request |-> request, results |-> after,
                               input |-> Append(got, out)]]
                       /\ pc' = [pc EXCEPT ![t] = "poll"]
                       /\ UNCHANGED <<sent, svcDone>>
                  ELSE /\ Answer(t, request, Append(got, out),
                              Response(IF healthy THEN 200 ELSE 503,
                                  [overall_status |->
                                       IF healthy THEN "healthy" ELSE "degraded",
                                   services |-> after,
                                   timestamp |-> now]))
                       /\ svcDone' = svcDone + 1

\* results = {} and the first turn of the loop
check_services(t) ==
    /\ Begin(t)
    /\ NextService(<<>>) # 0
    /\ Turn(t, [route |-> "/services"], <<>>, <<>>, clock')
    /\ UNCHANGED <<logFile, backups, lock, osQueries>>

\* a later turn of the loop
poll(t) ==
    /\ pc[t] = "poll"
    /\ NextService(frame[t].results) # 0
    /\ Turn(t, frame[t].request, frame[t].results, frame[t].input, clock)
    /\ UNCHANGED <<clock, logFile, backups, lock, osQueries>>

(***************************************************************************)
(* /logs                                                                   *)
(***************************************************************************)
LinesArgs == {Absent, Garbage, IntArg(0), IntArg(1), IntArg(3)}

\* str(e) of the FileNotFoundError open() raises
ENOENT == "[Errno 2] No such file or directory: 'logs/monitoring.log'"

\* a mutant of the missing-file branch: the missing file is reported
MissingAsError == Response(404, [error |-> ENOENT])

\* return jsonify({'logs': []}), 200
Missing == Response(200, [logs |-> <<>>])

\* what the handler reads of the disk: whether os.path.exists found the file
\* and, once open() ran, what open() and readlines() gave
NotFound == [found |-> FALSE]
Opened(file) == [found |-> TRUE, exists |-> file.exists, content |-> file.content]

\* lines 104-108: the parameter, then os.path.exists
get_logs(t) ==
    /\ Begin(t)
    /\ \E raw \in LinesArgs :
          LET request == [route |-> "/logs", lines |-> raw]
          IN  IF ~logFile.exists
              THEN Answer(t, request, NotFound, Missing)
              ELSE /\ pc' = [pc EXCEPT ![t] = "open"]
                   /\ frame' = [frame EXCEPT ![t] =
                         [request |-> request, lines |-> ParseLines(raw)]]
                   /\ UNCHANGED sent
    /\ UNCHANGED <<logFile, backups, lock, hits, svcDone, osQueries>>

\* lines 110-122: open and read the file and answer, or log the exception
read_logs(t) ==
    /\ pc[t] = "open"
    /\ IF logFile.exists
       THEN LET logs == readlines(logFile.content)
                recent_logs == recent(logs, frame[t].lines)
            IN  Answer(t, frame[t].request, Opened(logFile),
                    Response(200,
                        [logs |-> [i \in 1..Len(recent_logs) |->
                                      strip(recent_logs[i])],
                         total_lines |-> Len(logs),
                         returned_lines |-> Len(recent_logs)]))
       ELSE /\ frame' = [frame EXCEPT ![t] =
                   Logging(frame[t].request, Opened(logFile),
                           Record(clock, "ERROR",
                                  "Error reading logs: " \o ENOENT, 121),
                           ErrorResponse(ENOENT))]
            /\ pc' = [pc EXCEPT ![t] = "emit"]
            /\ UNCHANGED sent
    /\ UNCHANGED <<clock, logFile, backups, lock, hits, svcDone, osQueries>>

Next ==
    \E t \in Threads :
        \/ health(t)
        \/ ping(t)
        \/ system_metrics(t)
        \/ get_alerts(t)
        \/ check_services(t)
        \/ poll(t)
        \/ get_logs(t)
        \/ read_logs(t)
        \/ emit(t)
        \/ reopen(t)
        \/ write(t)

Spec == Init /\ [][Next]_vars

(***************************************************************************)
(* Properties.                                                             *)
(***************************************************************************)
Min(a, b) == IF a < b THEN a ELSE b

\* the lines of a file: one for every "\n", and one for what follows the last
LineCount(content) ==
    Cardinality({i \in 1..Len(content) : content[i] = LF})
        + (IF content # <<>> /\ content[Len(content)] # LF THEN 1 ELSE 0)

\* s is line with the whitespace around it taken off
Trimmed(s, line) ==
    \E i \in 0..Len(line) :
        /\ i + Len(s) <= Len(line)
        /\ s = SubSeq(line, i + 1, i + Len(s))
        /\ \A j \in 1..i : line[j].ws
        /\ \A j \in (i + Len(s) + 1)..Len(line) : line[j].ws
        /\ s # <<>> => ~s[1].ws /\ ~s[Len(s)].ws

Names(results) == [i \in 1..Len(results) |-> results[i].name]

\* a step in which a request for one of the routes arrives and is answered
AnsweredAtOnce(routes) ==
    clock' # clock /\ pc' = pc /\ sent'.request.route \in routes

\* C1: for every file content and every integer lines = n >= 0, a /logs
\* response read from the file holds exactly min(n, total_lines) entries, the
\* last min(n, total_lines) lines of the file in file order, each trimmed;
\* total_lines is the file's line count and returned_lines the number of entries.
C1_LastLines ==
    ( /\ sent.request.route = "/logs"
      /\ sent.input.found
      /\ sent.input.exists
      /\ sent.request.lines.kind = "int"
      /\ sent.request.lines.v >= 0 )
    => LET lines == readlines(sent.input.content)
           total == LineCount(sent.input.content)
           k == Min(sent.request.lines.v, total)
       IN  /\ sent.status = 200
           /\ sent.body.total_lines = total
           /\ sent.body.returned_lines = Len(sent.body.logs)
           /\ Len(sent.body.logs) = k
           /\ \A i \in 1..Min(k, Len(sent.body.logs)) :
                 Trimmed(sent.body.logs[i], lines[total - k + i])

\* C2: /services answers "healthy" with 200 exactly when every configured
\* endpoint returned status 200, and "degraded" with 503 otherwise.
C2_HealthyIffAll200 ==
    sent.request.route = "/services"
    => LET all200 == /\ Len(sent.input) = Len(ServiceNames)
                     /\ \A i \in 1..Len(sent.input) :
                           /\ ~sent.input[i].raised
                           /\ sent.input[i].status_code = 200
       IN  /\ all200 => sent.status = 200 /\ sent.body.overall_status = "healthy"
           /\ ~all200 => sent.status = 503 /\ sent.body.overall_status = "degraded"

C2_OneEndpointDown ==
    /\ sent.request.route = "/services"
    /\ sent.status = 503
    /\ Cardinality({i \in 1..Len(sent.input) :
          ~sent.input[i].raised /\ sent.input[i].status_code = 200}) = 2

\* C3: when no OS query fails, /alerts answers 200 with exactly one cpu alert
\* (warning) iff cpu > 80, one memory alert (warning) iff memory > 85, one disk
\* alert (critical) iff disk > 90, none at a value equal to its threshold, no
\* other alert, and count equal to the length of the list.
HowMany(alerts, type, level) ==
    Cardinality({i \in 1..Len(alerts) :
        alerts[i].type = type /\ alerts[i].level = level})

C3_AlertsMatchThresholds ==
    ( /\ sent.request.route = "/alerts"
      /\ Len(sent.input) = 3
      /\ \A i \in 1..3 : sent.input[i].ok )
    => LET cpu == sent.input[1].v
           memory == sent.input[2].v.percent
           disk == sent.input[3].v.percent
           alerts == sent.body.alerts
       IN  /\ sent.status = 200
           /\ HowMany(alerts, "cpu", "warning") = (IF cpu > 80 * Scale THEN 1 ELSE 0)
           /\ HowMany(alerts, "memory", "warning")
                 = (IF memory > 85 * Scale THEN 1 ELSE 0)
           /\ HowMany(alerts, "disk", "critical")
                 = (IF disk > 90 * Scale THEN 1 ELSE 0)
           /\ Len(alerts) = HowMany(alerts, "cpu", "warning")
                              + HowMany(alerts, "memory", "warning")
                              + HowMany(alerts, "disk", "critical")
           /\ sent.body.count = Len(alerts)

C3_CpuAtThresholdDiskAbove ==
    /\ sent.request.route = "/alerts"
    /\ sent.status = 200
    /\ Len(sent.input) = 3
    /\ sent.input[1].ok /\ sent.input[1].v = 80 * Scale
    /\ sent.input[3].ok /\ sent.input[3].v.percent > 90 * Scale
    /\ sent.body.count = 1

\* C4: a request that fails with a network or timeout error leaves /services
\* with an entry for every configured endpoint: the failing one is "unhealthy"
\* with a non-empty error, response_time null and no status_code, the others
\* are polled and classified all the same, and the answer is 503, never 500.
C4_FailedRequestIsAnEntry ==
    /\ \A t \in Threads : pc[t] = "poll" => ENABLED poll(t)
    /\ sent.request.route = "/services"
       => /\ Names(sent.body.services) = ServiceNames
          /\ Len(sent.input) = Len(ServiceNames)
          /\ \A i \in 1..Len(sent.input) :
                LET out == sent.input[i]
                    entry == sent.body.services[i].entry
                IN  IF out.raised
                    THEN /\ entry.status = "unhealthy"
                         /\ entry.error # ""
                         /\ entry.response_time = None
                         /\ "status_code" \notin DOMAIN entry
                         /\ sent.status = 503
                    ELSE /\ entry.status = "healthy" <=> out.status_code = 200
                         /\ entry.status \in {"healthy", "unhealthy"}
                         /\ entry.status_code = out.status_code
                         /\ entry.response_time = Some(out.elapsed)
                         /\ "error" \notin DOMAIN entry

C4_ApiRefusedOthersPolled ==
    /\ sent.request.route = "/services"
    /\ sent.input[1].raised
    /\ ~sent.input[2].raised /\ sent.input[2].status_code = 200
    /\ ~sent.input[3].raised /\ sent.input[3].status_code # 200

\* C5: when os.path.exists finds no log file, /logs answers {logs: []} with 200
\* whatever the lines parameter, and the handler neither creates nor writes the
\* file.
C5_MissingFileIsEmpty ==
    /\ [](sent.request.route = "/logs" /\ ~sent.input.found
            => sent.status = 200 /\ sent.body = [logs |-> <<>>])
    /\ [][AnsweredAtOnce({"/logs"})
            => ~logFile.exists /\ UNCHANGED <<logFile, backups>>]_vars

C5_AnsweredWhileAbsent ==
    /\ sent.request.route = "/logs"
    /\ ~sent.input.found
    /\ ~logFile.exists
    /\ sent.request.lines = IntArg(3)

\* C6: /metrics and /alerts answer 500 with a payload holding only the error
\* iff an OS query fails; then exactly one error-level record is appended to the
\* log file; otherwise the answer is 200 and the handler leaves the log file
\* alone.
Sampling == {"/metrics", "/alerts"}

C6_ErrorIffQueryFails ==
    /\ [](sent.request.route \in Sampling
            => LET failed == \E i \in 1..Len(sent.input) : ~sent.input[i].ok
               IN  /\ failed <=> sent.status = 500
                   /\ failed => DOMAIN sent.body = {"error"}
                   /\ ~failed => sent.status = 200 /\ "error" \notin DOMAIN sent.body)
    /\ [][\A t \in Threads :
            \* the handler answers 200, or goes to log the exception
            /\ (AnsweredAtOnce(Sampling) \/ (pc[t] = "idle" /\ pc'[t] = "emit"))
               => UNCHANGED <<logFile, backups>>
            \* a rollover on the way writes no record
            /\ (frame[t].request.route \in Sampling /\ pc[t] # pc'[t]
                /\ pc'[t] \in {"reopen", "write"})
               => logFile'.content = <<>>
            \* the record is written once, as the handler answers
            /\ (frame[t].request.route \in Sampling /\ pc[t] \in {"emit", "write"}
                /\ pc'[t] = "idle")
               => /\ frame[t].rec.level = "ERROR"
                  /\ logFile'.content = logFile.content \o Written(frame[t].rec)
                  /\ LineCount(logFile'.content) = LineCount(logFile.content) + 1
                  /\ sent'.status = 500]_vars

C6_DiskFailsAfterCpuAlert ==
    /\ sent.request.route = "/alerts"
    /\ sent.status = 500
    /\ Len(sent.input) = 3
    /\ sent.input[1].ok /\ sent.input[1].v > 80 * Scale
    /\ LineCount(logFile.content) > 1

\* C7: /health and /ping leave the log file alone, make no outbound request and
\* no OS query, and answer 200 with the same payload on every call, the
\* timestamp aside.
Static == {"/health", "/ping"}

C7_HealthAndPingArePure ==
    /\ [](/\ sent.request.route = "/health"
             => /\ sent.status = 200
                /\ DOMAIN sent.body = {"status", "service", "timestamp"}
                /\ sent.body.status = "healthy"
                /\ sent.body.service = "monitoring"
          /\ sent.request.route = "/ping"
             => sent.status = 200 /\ sent.body = [message |-> "pong"])
    /\ [][AnsweredAtOnce(Static)
            => UNCHANGED <<logFile, backups, lock, hits, svcDone, osQueries>>]_vars

C7_HealthAfterOtherRequests ==
    /\ sent.request.route = "/health"
    /\ svcDone = 1
    /\ clock = 2

\* C8: one /services call requests every configured endpoint exactly once, in
\* the fixed order, one after the other, without retries; a later call requests
\* every endpoint again, whatever failed before.
Polled(t, name) ==
    /\ pc[t] = "poll"
    /\ \E i \in 1..Len(frame[t].results) : frame[t].results[i].name = name

C8_EachEndpointOncePerCall ==
    /\ \A i \in 1..Len(ServiceNames) :
          hits[ServiceNames[i]]
              = svcDone + Cardinality({t \in Threads : Polled(t, ServiceNames[i])})
    /\ \A t \in Threads :
          pc[t] = "poll"
          => /\ Names(frame[t].results)
                   = SubSeq(ServiceNames, 1, Len(frame[t].results))
             /\ Len(frame[t].input) = Len(frame[t].results)
    /\ sent.request.route = "/services"
          => Names(sent.body.services) = ServiceNames

C8_FailedAgainOnNextCall ==
    /\ sent.request.route = "/services"
    /\ sent.input[1].raised
    /\ svcDone = 1
    /\ hits["api"] = 2
    /\ \E t \in Threads :
          /\ pc[t] = "poll"
          /\ Len(frame[t].input) = 2
          /\ frame[t].input[1].raised
          /\ frame[t].input[2].raised

\* C9: a /logs request that interleaves with a rotation of the log file never
\* answers an error: it answers 200 with the empty list or with a tail of the
\* file.
C9_LogsNeverFails ==
    sent.request.route = "/logs" => sent.status = 200

\* C10 as the specification states it: the log file is rotated at 10,485,760
\* bytes: it never exceeds that size, a new file is started once a record would
\* take it past that size, and at most 10 backups are kept.
Rolls(t) == pc[t] = "emit" /\ pc'[t] = "reopen"
Emits(t) == pc[t] = "emit" /\ pc'[t] # "emit"

====
